---- MODULE Spec2Model ----
(***************************************************************************)
(* Model of caddy-i18n: the translation pass over a parsed HTML page       *)
(* (translationCatalog.translate), the message lookup (getTranslation),    *)
(* the catalog rewrite (savePO), the unused-message report                 *)
(* (unusedMessages, writeUnusedMessages) and the request handler           *)
(* (I18n.ServeHTTP) that runs them.                                        *)
(*                                                                         *)
(* Strings are sequences of one-character strings, so that concatenation,  *)
(* trimming, splitting and prefix tests are computed, not assumed.         *)
(* Attribute names are sequences of tokens ("i18n", ":", "commas:", ...).  *)
(***************************************************************************)
EXTENDS Naturals, Sequences, FiniteSets

\* ------------------------------------------------------------------ bounds
\* longest attribute list of an element of a page (translation-pass model)
MaxAttrs == 3
\* longest message sequence of a loaded catalog
MaxMsgs == 2
\* most marked elements on a page (catalog life-cycle model)
MaxElems == 2
\* most requests served one after the other
MaxPasses == 2

\* ------------------------------------------------------- string functions
\* strings.TrimSpace, left part
RECURSIVE TrimLeft(_)
TrimLeft(s) ==
    IF s = <<>> THEN s
    ELSE IF Head(s) = " " THEN TrimLeft(Tail(s)) ELSE s

\* strings.TrimSpace, right part
RECURSIVE TrimRight(_)
TrimRight(s) ==
    IF s = <<>> THEN s
    ELSE IF s[Len(s)] = " " THEN TrimRight(SubSeq(s, 1, Len(s) - 1)) ELSE s

TrimSpace(s) == TrimRight(TrimLeft(s))

\* html.UnescapeString: a character reference becomes the character it names
UnescapeString(s) == [i \in 1..Len(s) |-> IF s[i] = "&#32;" THEN " " ELSE s[i]]

HasPrefix(s, p) == Len(s) >= Len(p) /\ SubSeq(s, 1, Len(p)) = p

TrimPrefix(s, p) == IF HasPrefix(s, p) THEN SubSeq(s, Len(p) + 1, Len(s)) ELSE s

\* strings.Split(s, ","): the items between the commas, empty items included
RECURSIVE SplitAcc(_, _, _)
SplitAcc(s, cur, acc) ==
    IF s = <<>> THEN Append(acc, cur)
    ELSE IF Head(s) = "," THEN SplitAcc(Tail(s), <<>>, Append(acc, cur))
    ELSE SplitAcc(Tail(s), Append(cur, Head(s)), acc)

Split(s) == SplitAcc(s, <<>>, <<>>)

\* strings.Trim(s, ","): leading and trailing commas removed
RECURSIVE TrimCommasLeft(_)
TrimCommasLeft(s) ==
    IF s = <<>> THEN s
    ELSE IF Head(s) = "," THEN TrimCommasLeft(Tail(s)) ELSE s

RECURSIVE TrimCommasRight(_)
TrimCommasRight(s) ==
    IF s = <<>> THEN s
    ELSE IF s[Len(s)] = "," THEN TrimCommasRight(SubSeq(s, 1, Len(s) - 1)) ELSE s

TrimCommas(s) == TrimCommasRight(TrimCommasLeft(s))

\* ------------------------------------------------------------ configuration
\* defaultConfig.HTMLAttribute and defaultConfig.HTMLTag
markerAttribute == <<"i18n">>
markerTag == "i18n"
\* defaultConfig.SourceLanguage, as language.Tag.String() prints it
sourceLanguage == <<"e", "n">>

contextKey == markerAttribute \o <<"-context">>
keepOnKey == markerAttribute \o <<"-keep-on">>
attrsKey == markerAttribute \o <<"-attrs">>
attrPrefix == markerAttribute \o <<":">>
commasPrefix == markerAttribute \o <<":", "commas:">>

\* ------------------------------------------------------------- input sets
Requests == {1, 2}

\* the target languages a catalog can be loaded for
Languages == {<<"f", "r">>, sourceLanguage}

\* po.Message
Message(msgid, msgctxt, msgstr) == [MsgId |-> msgid, MsgContext |-> msgctxt, MsgStr |-> msgstr]

\* the entries a catalog file is made of: "a" untranslated and with two
\* translations, "a" in the context "b" untranslated, "ab" translated
MessageSet ==
    { Message(<<"a">>, <<>>, <<>>),
      Message(<<"a">>, <<>>, <<"x">>),
      Message(<<"a">>, <<>>, <<"y">>),
      Message(<<"a">>, <<"b">>, <<>>),
      Message(<<"a", "b">>, <<>>, <<"x">>) }

SeqsUpTo(S, n) == UNION {[1..k -> S] : k \in 0..n}

\* the message sequences po.LoadFile can return: any entries in any order,
\* repeated (msgid, msgctxt) pairs and empty msgstr included
Catalogs == SeqsUpTo(MessageSet, MaxMsgs)

\* catalogs of at most one entry
SmallCatalogs == {<<>>} \cup {<<m>> : m \in MessageSet}

\* inner HTML of an element: blank, " a " written with a character
\* reference, and "ab"
Contents == {<<" ">>, <<"&#32;", "a", " ">>, <<"a", "b">>}

\* html.Attribute
Attr(k, v) == [Key |-> k, Val |-> v]

AttrUniverse ==
    { Attr(markerAttribute, <<>>),
      Attr(contextKey, <<"b">>),
      Attr(keepOnKey, <<"f", "r">>),
      Attr(attrsKey, <<>>),
      Attr(attrPrefix \o <<"title">>, <<"a">>),
      Attr(commasPrefix \o <<"class">>, <<"a", ",", "a", "b">>) }

\* the parser keeps one attribute per name
DistinctKeys(as) == \A i, j \in DOMAIN as : i # j => as[i].Key # as[j].Key

AttrLists == {as \in SeqsUpTo(AttrUniverse, MaxAttrs) : DistinctKeys(as)}

\* an element of the parsed tree, the elements of a page being in document
\* order: parent is the position of the element it is nested in (0 at the
\* top), removed is set by the keep-on pass
Element(tag, as, c) ==
    [tag |-> tag, attrs |-> as, content |-> c, removed |-> FALSE, parent |-> 0]

\* the element nested in the element at position p
Child(el, p) == [el EXCEPT !.parent = p]

\* pages of one element with any attribute list
RichPages ==
    { <<Element(tag, as, c)>> : tag \in {"span", markerTag}, as \in AttrLists, c \in Contents }

\* marked elements with a non-blank content: "a", "a" in the context "b"
\* and "ab"
MarkedElements ==
    { Element("span", <<Attr(markerAttribute, <<>>)>>, <<"&#32;", "a", " ">>),
      Element("span", <<Attr(markerAttribute, <<>>), Attr(contextKey, <<"b">>)>>,
              <<"&#32;", "a", " ">>),
      Element("span", <<Attr(markerAttribute, <<>>)>>, <<"a", "b">>) }

SimplePages == SeqsUpTo(MarkedElements, MaxElems) \ {<<>>}

\* pages of a <div> with a -keep-on attribute and, nested in it, a marked
\* element or an element with a -keep-on attribute of its own
NestedPages ==
    { <<Element("div", <<Attr(keepOnKey, v)>>, <<>>), Child(c, 1)>> :
         v \in Languages,
         c \in { Element("span", <<Attr(markerAttribute, <<>>)>>, <<"a", "b">>),
                 Element("span", <<Attr(keepOnKey, <<"f", "r">>)>>, <<"a", "b">>) } }

\* comma lists with an empty item at an end, a repeated item and two
\* different items
CommaValues ==
    { <<"a", ",">>, <<",", "a", "b">>, <<"a", ",", "a">>, <<"a", "b", ",", "a">> }

\* pages of one element with the -attrs attribute and one commas: attribute
CommaPages ==
    { <<Element("span", <<Attr(attrsKey, <<>>), Attr(commasPrefix \o <<"class">>, v)>>, <<>>)>> :
         v \in CommaValues }

\* the pages of the translation-pass model
TranslatePages == RichPages \cup NestedPages \cup CommaPages

\* ------------------------------------------------------- catalog functions
\* the key under which seenMessages holds a lookup: msgid + msgctxt
seenKey(msgid, msgctxt) == msgid \o msgctxt

\* scanMessages returning the last match instead of the first
RECURSIVE scanMessagesLast(_, _, _)
scanMessagesLast(msgs, msgid, msgctxt) ==
    IF msgs = <<>> THEN [str |-> <<>>, err |-> TRUE]
    ELSE LET message == msgs[Len(msgs)] IN
         IF message.MsgId = msgid /\ message.MsgStr # <<>> /\ message.MsgContext = msgctxt
         THEN [str |-> message.MsgStr, err |-> FALSE]
         ELSE scanMessagesLast(SubSeq(msgs, 1, Len(msgs) - 1), msgid, msgctxt)

\* the loop of getTranslation: the first message with this msgid and msgctxt
\* and a non-empty msgstr
RECURSIVE scanMessages(_, _, _)
scanMessages(msgs, msgid, msgctxt) ==
    IF msgs = <<>> THEN [str |-> <<>>, err |-> TRUE]
    ELSE LET message == Head(msgs) IN
         IF message.MsgId = msgid /\ message.MsgStr # <<>> /\ message.MsgContext = msgctxt
         THEN [str |-> message.MsgStr, err |-> FALSE]
         ELSE scanMessages(Tail(msgs), msgid, msgctxt)

\* getTranslation without the early return on an empty msgid
getTranslationOfEmpty(msgs, seen, msgid, msgctxt) ==
    LET found == scanMessages(msgs, msgid, msgctxt) IN
    [str |-> found.str, err |-> found.err, seen |-> seen \cup {seenKey(msgid, msgctxt)}]

\* getTranslation: the msgstr or an error, and seenMessages after the call
getTranslation(msgs, seen, msgid, msgctxt) ==
    IF msgid = <<>> THEN [str |-> <<>>, err |-> FALSE, seen |-> seen]
    ELSE LET found == scanMessages(msgs, msgid, msgctxt) IN
         [str |-> found.str, err |-> found.err,
          seen |-> seen \cup {seenKey(msgid, msgctxt)}]

\* unusedMessages: the messages whose key is not in seenMessages
unusedMessages(msgs, seen) ==
    SelectSeq(msgs, LAMBDA message : seenKey(message.MsgId, message.MsgContext) \notin seen)

\* savePO, first loop: unseen messages with an empty msgstr are dropped
uselessRemovedOf(msgs, seen) ==
    SelectSeq(msgs, LAMBDA msg :
        ~(seenKey(msg.MsgId, msg.MsgContext) \notin seen /\ msg.MsgStr = <<>>))

\* dedupeLoop keeping the last message of an equal (msgid, msgctxt) pair
RECURSIVE dedupeLoopKeepsLast(_, _)
dedupeLoopKeepsLast(msgs, deduped) ==
    IF msgs = <<>> THEN deduped
    ELSE LET msg == Head(msgs)
             isDupe == \E j \in 2..Len(msgs) :
                           msg.MsgId = msgs[j].MsgId /\ msg.MsgContext = msgs[j].MsgContext
         IN dedupeLoopKeepsLast(Tail(msgs), IF isDupe THEN deduped ELSE Append(deduped, msg))

\* savePO, second loop: a message is kept unless an equal (msgid, msgctxt)
\* is already kept
RECURSIVE dedupeLoop(_, _)
dedupeLoop(msgs, deduped) ==
    IF msgs = <<>> THEN deduped
    ELSE LET msg == Head(msgs)
             isDupe == \E j \in DOMAIN deduped :
                           msg.MsgId = deduped[j].MsgId /\ msg.MsgContext = deduped[j].MsgContext
         IN dedupeLoop(Tail(msgs), IF isDupe THEN deduped ELSE Append(deduped, msg))

\* dedupedMessagesOf with nothing removed
dedupedMessagesKeepAll(msgs) == msgs

dedupedMessagesOf(msgs) == dedupeLoop(msgs, <<>>)

\* savePO as a whole: the message sequence it leaves in t.poFile.Messages and
\* writes to the file
savePO(msgs, seen, missing) == dedupedMessagesOf(uselessRemovedOf(msgs, seen) \o missing)

\* the lines writeUnusedMessages writes after the header
unusedLine(message) ==
    IF message.MsgContext # <<>>
    THEN [msgid |-> message.MsgId, msgctxt |-> message.MsgContext]
    ELSE [msgid |-> message.MsgId]

\* -------------------------------------------------------- attribute lists
zeroAttr == Attr(<<>>, <<>>)

HasAttr(as, name) == \E i \in DOMAIN as : as[i].Key = name

FirstIndex(as, n, name) == CHOOSE i \in 1..n : as[i].Key = name /\ \A j \in 1..(i - 1) : as[j].Key # name

\* goquery AttrOr
AttrOr(as, name, default) ==
    IF HasAttr(as, name) THEN as[FirstIndex(as, Len(as), name)].Val ELSE default

\* goquery removeAttr on a backing array arr of which the first n slots are
\* the slice: the last attribute takes the place of the removed one
removeAttrArr(arr, n, name) ==
    IF \E i \in 1..n : arr[i].Key = name
    THEN LET i == FirstIndex(arr, n, name) IN
         [arr |-> [arr EXCEPT ![i] = arr[n], ![n] = zeroAttr], n |-> n - 1]
    ELSE [arr |-> arr, n |-> n]

\* goquery SetAttr: the value of the attribute of that name, or a new
\* attribute appended in the spare slot
SetAttrArr(arr, n, name, val) ==
    IF \E i \in 1..n : arr[i].Key = name
    THEN [arr |-> [arr EXCEPT ![FirstIndex(arr, n, name)].Val = val], n |-> n]
    ELSE IF n < Len(arr)
         THEN [arr |-> [arr EXCEPT ![n + 1] = Attr(name, val)], n |-> n + 1]
         ELSE [arr |-> Append(arr, Attr(name, val)), n |-> n + 1]

RemoveAttr(as, name) ==
    LET r == removeAttrArr(as, Len(as), name) IN SubSeq(r.arr, 1, r.n)

\* ------------------------------------------------- the passes of translate
\* what a pass carries along: seenMessages, t.missingMessages and the pairs
\* it looked up
Acc(seen, missing, lk) == [seen |-> seen, missing |-> missing, looked |-> lk]

\* lookup with the append to missingMessages left out
lookupDropsMiss(msgs, acc, msgid, msgctxt) ==
    LET got == getTranslation(msgs, acc.seen, msgid, msgctxt) IN
    [str |-> got.str, err |-> got.err,
     acc |-> Acc(got.seen, acc.missing,
                 IF msgid = <<>> THEN acc.looked ELSE acc.looked \cup {<<msgid, msgctxt>>})]

\* one call of getTranslation from translate, with the append to
\* missingMessages on an error
lookup(msgs, acc, msgid, msgctxt) ==
    LET got == getTranslation(msgs, acc.seen, msgid, msgctxt) IN
    [str |-> got.str, err |-> got.err,
     acc |-> Acc(got.seen,
                 IF got.err
                 THEN Append(acc.missing, Message(msgid, msgctxt, <<>>))
                 ELSE acc.missing,
                 IF msgid = <<>> THEN acc.looked ELSE acc.looked \cup {<<msgid, msgctxt>>})]

IsMarked(el) == el.tag = markerTag \/ HasAttr(el.attrs, markerAttribute)

\* translateElement without the test of the target language
translateElementAlways(el, msgs, lang, acc) ==
    LET a1 == RemoveAttr(el.attrs, markerAttribute)
        msgContext == AttrOr(a1, contextKey, <<>>)
        stripped == [el EXCEPT !.attrs = RemoveAttr(a1, contextKey)]
        innerHTML == TrimSpace(UnescapeString(el.content))
    IN  IF innerHTML = <<>>
        THEN [el |-> stripped, acc |-> acc]
        ELSE LET translated == lookup(msgs, acc, innerHTML, msgContext) IN
             IF translated.err
             THEN [el |-> stripped, acc |-> translated.acc]
             ELSE [el |-> [stripped EXCEPT !.content = translated.str], acc |-> translated.acc]

\* translate, first Each: one marked element
translateElement(el, msgs, lang, acc) ==
    LET a1 == RemoveAttr(el.attrs, markerAttribute)
        msgContext == AttrOr(a1, contextKey, <<>>)
        stripped == [el EXCEPT !.attrs = RemoveAttr(a1, contextKey)]
        innerHTML == TrimSpace(UnescapeString(el.content))
    IN  IF lang = sourceLanguage \/ innerHTML = <<>>
        THEN [el |-> stripped, acc |-> acc]
        ELSE LET translated == lookup(msgs, acc, innerHTML, msgContext) IN
             IF translated.err
             THEN [el |-> stripped, acc |-> translated.acc]
             ELSE [el |-> [stripped EXCEPT !.content = translated.str], acc |-> translated.acc]

\* keepOnElement that removes no element
keepOnElementKeepsAll(el, lang) == [el EXCEPT !.attrs = RemoveAttr(el.attrs, keepOnKey)]

\* translate, second Each: one element with a -keep-on attribute
keepOnElement(el, lang) ==
    [el EXCEPT !.removed = el.removed \/ AttrOr(el.attrs, keepOnKey, <<>>) # lang,
               !.attrs = RemoveAttr(el.attrs, keepOnKey)]

\* translate, third Each: the items of a commas: attribute
RECURSIVE translateItems(_, _, _, _)
translateItems(items, msgs, acc, translated) ==
    IF items = <<>> THEN [val |-> TrimCommas(translated), acc |-> acc]
    ELSE LET val == Head(items)
             got == lookup(msgs, acc, val, <<>>)
             translatedItem == IF got.err THEN val ELSE got.str
         IN translateItems(Tail(items), msgs, got.acc, translated \o <<",">> \o translatedItem)

\* translate, third Each: the range over the attributes of one element.
\* The range reads slot i of the backing array as it is when it gets there,
\* up to the length k the slice had when the loop began.
RECURSIVE attrsLoop(_, _, _, _, _, _, _)
attrsLoop(arr, n, i, k, msgs, lang, acc) ==
    IF i > k THEN [attrs |-> SubSeq(arr, 1, n), acc |-> acc]
    ELSE LET attribute == arr[i] IN
         IF ~HasPrefix(attribute.Key, attrPrefix)
         THEN attrsLoop(arr, n, i + 1, k, msgs, lang, acc)
         ELSE IF HasPrefix(attribute.Key, commasPrefix)
         THEN LET t == IF lang # sourceLanguage
                       THEN translateItems(Split(attribute.Val), msgs, acc, <<>>)
                       ELSE [val |-> attribute.Val, acc |-> acc]
                  rm == removeAttrArr(arr, n, attribute.Key)
                  st == SetAttrArr(rm.arr, rm.n, TrimPrefix(attribute.Key, commasPrefix), t.val)
              IN attrsLoop(st.arr, st.n, i + 1, k, msgs, lang, t.acc)
         ELSE LET got == IF lang # sourceLanguage
                         THEN lookup(msgs, acc, attribute.Val, <<>>)
                         ELSE [str |-> attribute.Val, err |-> FALSE, acc |-> acc]
                  translated == IF got.err THEN attribute.Val ELSE got.str
                  rm == removeAttrArr(arr, n, attribute.Key)
                  st == SetAttrArr(rm.arr, rm.n, TrimPrefix(attribute.Key, attrPrefix), translated)
              IN attrsLoop(st.arr, st.n, i + 1, k, msgs, lang, got.acc)

\* translate, third Each: one element with the -attrs attribute
translateAttrs(el, msgs, lang, acc) ==
    LET rm == removeAttrArr(el.attrs, Len(el.attrs), attrsKey)
        done == attrsLoop(rm.arr, rm.n, 1, rm.n, msgs, lang, acc)
    IN [el |-> [el EXCEPT !.attrs = done.attrs], acc |-> done.acc]

\* doc.Html() and the two ReplaceAll: the elements still in the tree, a
\* bare <i18n> open tag and every </i18n> close tag deleted from the text
renderElement(el) ==
    [open |-> ~(el.tag = markerTag /\ el.attrs = <<>>), close |-> el.tag # markerTag,
     tag |-> el.tag, attrs |-> el.attrs, content |-> el.content]

\* the element is still in the tree: neither it nor an element it is nested
\* in was removed
RECURSIVE InTree(_, _)
InTree(pg, i) ==
    /\ ~pg[i].removed
    /\ pg[i].parent # 0 => InTree(pg, pg[i].parent)

RECURSIVE htmlFrom(_, _)
htmlFrom(pg, i) ==
    IF i > Len(pg) THEN <<>>
    ELSE (IF InTree(pg, i) THEN <<renderElement(pg[i])>> ELSE <<>>) \o htmlFrom(pg, i + 1)

htmlString(pg) == htmlFrom(pg, 1)

\* ------------------------------------------------------------------ state
VARIABLES
    poMessages,      \* t.poFile.Messages, shared by every copy of the catalog
    seenMessages,    \* t.seenMessages, one set shared by every copy
    language,        \* t.language, the catalog's target language
    update,          \* m.UpdateTranslations
    poDisk,          \* the messages of <language>.po, as last handed to Save
    unusedFile,      \* the lines of <language>-unused-messages.yaml, <<>> when absent
    pc,              \* where each request is in ServeHTTP
    page,            \* the parsed tree a request is translating
    source,          \* the page as the request received it
    idx,             \* position of a pass in the elements of the page
    missingMessages, \* t.missingMessages of the request's copy of the catalog
    response,        \* what the request wrote to the client
    uselessRemoved,  \* savePO's local of that name
    dedupedMessages, \* savePO's local of that name
    preSave,         \* poMessages when the request's savePO began
    looked,          \* the (msgid, msgctxt) pairs the request's pass looked up
    everLooked,      \* the pairs any pass looked up
    passes,          \* requests begun so far
    unused,          \* writeUnusedMessages' local of that name
    unusedPos,       \* how many entries of unused the request has written
    unusedFd         \* the request's descriptor on the report: "closed", "linked"
                     \* to the file at the path, or "orphan" once that file was removed

shared == <<poMessages, seenMessages, poDisk, unusedFile>>
config == <<language, update>>
doc == <<page, source, idx>>
saveLocals == <<uselessRemoved, dedupedMessages, preSave>>
ghost == <<looked, everLooked>>
report == <<unused, unusedPos, unusedFd>>

vars == <<poMessages, seenMessages, language, update, poDisk, unusedFile, pc, page,
          source, idx, missingMessages, response, uselessRemoved, dedupedMessages,
          preSave, looked, everLooked, passes, unused, unusedPos, unusedFd>>

noResponse == [written |-> FALSE, body |-> <<>>]
unusedHeader == "# Generated at"

\* loadTranslations: the catalog as loaded, nothing seen, nothing missing
InitWith(catalogs, languages, updates) ==
    /\ poMessages \in catalogs
    /\ poDisk = poMessages
    /\ seenMessages = {}
    /\ language \in languages
    /\ update \in updates
    /\ unusedFile = <<>>
    /\ pc = [r \in Requests |-> "idle"]
    /\ page = [r \in Requests |-> <<>>]
    /\ source = [r \in Requests |-> <<>>]
    /\ idx = [r \in Requests |-> 1]
    /\ missingMessages = [r \in Requests |-> <<>>]
    /\ response = [r \in Requests |-> noResponse]
    /\ uselessRemoved = [r \in Requests |-> <<>>]
    /\ dedupedMessages = [r \in Requests |-> <<>>]
    /\ preSave = [r \in Requests |-> <<>>]
    /\ looked = [r \in Requests |-> {}]
    /\ everLooked = {}
    /\ passes = 0
    /\ unused = [r \in Requests |-> <<>>]
    /\ unusedPos = [r \in Requests |-> 0]
    /\ unusedFd = [r \in Requests |-> "closed"]

\* ServeHTTP up to translatePage: the response of the next handler is parsed
\* and the request takes its own copy of the catalog, whose missingMessages
\* is the empty list loadTranslations made
Start(r, pages, limit) ==
    /\ pc[r] = "idle"
    /\ passes < limit
    /\ \E pg \in pages :
        /\ page' = [page EXCEPT ![r] = pg]
        /\ source' = [source EXCEPT ![r] = pg]
    /\ idx' = [idx EXCEPT ![r] = 1]
    /\ missingMessages' = [missingMessages EXCEPT ![r] = <<>>]
    /\ response' = [response EXCEPT ![r] = noResponse]
    /\ looked' = [looked EXCEPT ![r] = {}]
    /\ passes' = passes + 1
    /\ pc' = [pc EXCEPT ![r] = "primary"]
    /\ UNCHANGED <<shared, config, saveLocals, everLooked, report>>

\* the accumulators a pass step starts from and leaves
accOf(r) == Acc(seenMessages, missingMessages[r], looked[r])

\* putAcc with one missingMessages list for every copy of the catalog
putAccShared(r, acc) ==
    /\ seenMessages' = acc.seen
    /\ missingMessages' = [q \in Requests |-> acc.missing]
    /\ looked' = [looked EXCEPT ![r] = acc.looked]
    /\ everLooked' = everLooked \cup acc.looked

\* what a pass step leaves: the shared seenMessages, and missingMessages in
\* the request's own copy of the catalog
putAcc(r, acc) ==
    /\ seenMessages' = acc.seen
    /\ missingMessages' = [missingMessages EXCEPT ![r] = acc.missing]
    /\ looked' = [looked EXCEPT ![r] = acc.looked]
    /\ everLooked' = everLooked \cup acc.looked

\* translate, first Each, one element of the selection "i18n, [i18n]"
Primary(r) ==
    /\ pc[r] = "primary"
    /\ LET el == page[r][idx[r]]
           done == IF IsMarked(el)
                   THEN translateElement(el, poMessages, language, accOf(r))
                   ELSE [el |-> el, acc |-> accOf(r)]
       IN /\ page' = [page EXCEPT ![r][idx[r]] = done.el]
          /\ putAcc(r, done.acc)
    /\ IF idx[r] < Len(page[r])
       THEN /\ idx' = [idx EXCEPT ![r] = idx[r] + 1]
            /\ pc' = pc
       ELSE /\ idx' = [idx EXCEPT ![r] = 1]
            /\ pc' = [pc EXCEPT ![r] = "keepon"]
    /\ UNCHANGED <<poMessages, poDisk, unusedFile, config, source, response, saveLocals, passes, report>>

\* translate, second Each: every element of the selection "[i18n-keep-on]"
KeepOn(r) ==
    /\ pc[r] = "keepon"
    /\ page' = [page EXCEPT ![r] =
                   [i \in DOMAIN page[r] |->
                       IF HasAttr(page[r][i].attrs, keepOnKey)
                       THEN keepOnElement(page[r][i], language)
                       ELSE page[r][i]]]
    /\ pc' = [pc EXCEPT ![r] = "attrs"]
    /\ UNCHANGED <<shared, config, source, idx, missingMessages, response, saveLocals,
                   ghost, passes, report>>

\* the selection "[i18n-attrs]" still to go through: the elements in the
\* tree that carry the attribute
attrsSelection(pg) == {i \in DOMAIN pg : HasAttr(pg[i].attrs, attrsKey) /\ InTree(pg, i)}

\* translate, third Each: the next element of the selection "[i18n-attrs]",
\* or nothing when the selection is empty
Attrs(r) ==
    /\ pc[r] = "attrs"
    /\ LET sel == attrsSelection(page[r]) IN
       IF sel = {}
       THEN /\ UNCHANGED <<page, seenMessages, missingMessages, ghost>>
            /\ pc' = [pc EXCEPT ![r] = "respond"]
       ELSE LET i == CHOOSE i \in sel : \A j \in sel : i <= j
                done == translateAttrs(page[r][i], poMessages, language, accOf(r))
            IN /\ page' = [page EXCEPT ![r][i] = done.el]
               /\ putAcc(r, done.acc)
               /\ pc' = [pc EXCEPT ![r] = IF sel = {i} THEN "respond" ELSE "attrs"]
    /\ UNCHANGED <<poMessages, poDisk, unusedFile, config, source, idx, response, saveLocals,
                   passes, report>>

\* Respond with nothing written to the client
RespondSkipped(r) ==
    /\ pc[r] = "respond"
    /\ pc' = [pc EXCEPT ![r] = IF update THEN "save" ELSE "unused"]
    /\ UNCHANGED <<shared, config, doc, missingMessages, response, saveLocals, ghost, passes,
                   report>>

\* ServeHTTP: the translated page is written, then savePO runs when
\* update_translations is set
Respond(r) ==
    /\ pc[r] = "respond"
    /\ response' = [response EXCEPT ![r] = [written |-> TRUE, body |-> htmlString(page[r])]]
    /\ pc' = [pc EXCEPT ![r] = IF update THEN "save" ELSE "unused"]
    /\ UNCHANGED <<shared, config, doc, missingMessages, saveLocals, ghost, passes, report>>

\* savePO, first loop
SaveScan(r) ==
    /\ pc[r] = "save"
    /\ uselessRemoved' = [uselessRemoved EXCEPT ![r] = uselessRemovedOf(poMessages, seenMessages)]
    /\ preSave' = [preSave EXCEPT ![r] = poMessages]
    /\ pc' = [pc EXCEPT ![r] = "saveAssign"]
    /\ UNCHANGED <<shared, config, doc, missingMessages, response, dedupedMessages, ghost, passes, report>>

\* savePO: t.poFile.Messages = uselessRemoved
SaveAssign(r) ==
    /\ pc[r] = "saveAssign"
    /\ poMessages' = uselessRemoved[r]
    /\ pc' = [pc EXCEPT ![r] = "saveAppend"]
    /\ UNCHANGED <<seenMessages, poDisk, unusedFile, config, doc, missingMessages, response,
                   saveLocals, ghost, passes, report>>

\* SaveAppend with the append left out
SaveAppendSkipped(r) ==
    /\ pc[r] = "saveAppend"
    /\ pc' = [pc EXCEPT ![r] = "saveDedupe"]
    /\ UNCHANGED <<shared, config, doc, missingMessages, response, saveLocals, ghost, passes, report>>

\* savePO: the missing messages are appended
SaveAppend(r) ==
    /\ pc[r] = "saveAppend"
    /\ poMessages' = poMessages \o missingMessages[r]
    /\ pc' = [pc EXCEPT ![r] = "saveDedupe"]
    /\ UNCHANGED <<seenMessages, poDisk, unusedFile, config, doc, missingMessages, response,
                   saveLocals, ghost, passes, report>>

\* savePO, second loop
SaveDedupe(r) ==
    /\ pc[r] = "saveDedupe"
    /\ dedupedMessages' = [dedupedMessages EXCEPT ![r] = dedupedMessagesOf(poMessages)]
    /\ pc' = [pc EXCEPT ![r] = "saveDeduped"]
    /\ UNCHANGED <<shared, config, doc, missingMessages, response, uselessRemoved, preSave,
                   ghost, passes, report>>

\* savePO: t.poFile.Messages = dedupedMessages
SaveDeduped(r) ==
    /\ pc[r] = "saveDeduped"
    /\ poMessages' = dedupedMessages[r]
    /\ pc' = [pc EXCEPT ![r] = "saveFile"]
    /\ UNCHANGED <<seenMessages, poDisk, unusedFile, config, doc, missingMessages, response,
                   saveLocals, ghost, passes, report>>

\* savePO: t.poFile.Save(t.poFilePath())
SaveFile(r) ==
    /\ pc[r] = "saveFile"
    /\ poDisk' = poMessages
    /\ pc' = [pc EXCEPT ![r] = "unused"]
    /\ UNCHANGED <<poMessages, seenMessages, unusedFile, config, doc, missingMessages,
                   response, saveLocals, ghost, passes, report>>

\* writeUnusedMessages: the report is removed when nothing is unused, and
\* otherwise rewritten as a header and one line per unused message
WriteUnused(r) ==
    /\ pc[r] = "unused"
    /\ LET list == unusedMessages(poMessages, seenMessages) IN
       unusedFile' = IF list = <<>> THEN <<>>
                     ELSE <<unusedHeader>> \o [i \in 1..Len(list) |-> unusedLine(list[i])]
    /\ pc' = [pc EXCEPT ![r] = "done"]
    /\ UNCHANGED <<poMessages, seenMessages, poDisk, config, doc, missingMessages, response,
                   saveLocals, ghost, passes, report>>

\* writeUnusedMessages step by step, as its file operations interleave with
\* those of another request. unused := t.unusedMessages()
UnusedScan(r) ==
    /\ pc[r] = "unused"
    /\ unused' = [unused EXCEPT ![r] = unusedMessages(poMessages, seenMessages)]
    /\ unusedPos' = [unusedPos EXCEPT ![r] = 0]
    /\ pc' = [pc EXCEPT ![r] = IF unused'[r] = <<>> THEN "unusedRemove" ELSE "unusedOpen"]
    /\ UNCHANGED <<shared, config, doc, missingMessages, response, saveLocals, ghost, passes,
                   unusedFd>>

\* os.Remove: the file leaves the path; a descriptor another request holds
\* on it goes on writing to a file no path leads to
UnusedRemove(r) ==
    /\ pc[r] = "unusedRemove"
    /\ unusedFile' = <<>>
    /\ unusedFd' = [q \in Requests |-> IF unusedFd[q] = "linked" THEN "orphan" ELSE unusedFd[q]]
    /\ pc' = [pc EXCEPT ![r] = "done"]
    /\ UNCHANGED <<poMessages, seenMessages, poDisk, config, doc, missingMessages, response,
                   saveLocals, ghost, passes, unused, unusedPos>>

\* os.OpenFile with O_APPEND|O_WRONLY|O_CREATE: a descriptor on the file at
\* the path, created empty when there is none
UnusedOpen(r) ==
    /\ pc[r] = "unusedOpen"
    /\ unusedFd' = [unusedFd EXCEPT ![r] = "linked"]
    /\ pc' = [pc EXCEPT ![r] = "unusedWriteFile"]
    /\ UNCHANGED <<shared, config, doc, missingMessages, response, saveLocals, ghost, passes,
                   unused, unusedPos>>

\* os.WriteFile: the file at the path is truncated, or created, and holds
\* the header line
UnusedWriteFile(r) ==
    /\ pc[r] = "unusedWriteFile"
    /\ unusedFile' = <<unusedHeader>>
    /\ pc' = [pc EXCEPT ![r] = "unusedAppend"]
    /\ UNCHANGED <<poMessages, seenMessages, poDisk, config, doc, missingMessages, response,
                   saveLocals, ghost, passes, report>>

\* file.WriteString of the next entry: appended at the end of the file the
\* descriptor is on; the deferred file.Close once every entry is written
UnusedAppend(r) ==
    /\ pc[r] = "unusedAppend"
    /\ IF unusedPos[r] < Len(unused[r])
       THEN /\ unusedFile' = IF unusedFd[r] = "linked"
                             THEN Append(unusedFile, unusedLine(unused[r][unusedPos[r] + 1]))
                             ELSE unusedFile
            /\ unusedPos' = [unusedPos EXCEPT ![r] = unusedPos[r] + 1]
            /\ UNCHANGED <<pc, unusedFd>>
       ELSE /\ unusedFd' = [unusedFd EXCEPT ![r] = "closed"]
            /\ pc' = [pc EXCEPT ![r] = "done"]
            /\ UNCHANGED <<unusedFile, unusedPos>>
    /\ UNCHANGED <<poMessages, seenMessages, poDisk, config, doc, missingMessages, response,
                   saveLocals, ghost, passes, unused>>

\* ServeHTTP when translatePage returns an error: the handler returns that
\* error before anything is written
ParseFails(r) ==
    /\ pc[r] = "idle"
    /\ passes < 1
    /\ passes' = passes + 1
    /\ pc' = [pc EXCEPT ![r] = "parseFailed"]
    /\ UNCHANGED <<shared, config, doc, missingMessages, response, saveLocals, ghost, report>>

\* ServeHTTP when io.WriteString fails: the status is out, the body is not,
\* and the handler returns the error
RespondFails(r) ==
    /\ pc[r] = "respond"
    /\ response' = [response EXCEPT ![r] = [written |-> TRUE, body |-> <<>>]]
    /\ pc' = [pc EXCEPT ![r] = "writeFailed"]
    /\ UNCHANGED <<shared, config, doc, missingMessages, saveLocals, ghost, passes, report>>

\* savePO when t.poFile.Save cannot write the file: savePO returns nothing
\* and the handler goes on
SaveFileFails(r) ==
    /\ pc[r] = "saveFile"
    /\ pc' = [pc EXCEPT ![r] = "unused"]
    /\ UNCHANGED <<shared, config, doc, missingMessages, response, saveLocals, ghost, passes,
                   report>>

\* writeUnusedMessages when os.OpenFile fails: it returns the error, which
\* ServeHTTP does not look at
WriteUnusedFails(r) ==
    /\ pc[r] = "unused"
    /\ unusedMessages(poMessages, seenMessages) # <<>>
    /\ pc' = [pc EXCEPT ![r] = "done"]
    /\ UNCHANGED <<shared, config, doc, missingMessages, response, saveLocals, ghost, passes,
                   report>>

\* ServeHTTP returns and its locals are gone; the next request can be served
Return(r) ==
    /\ pc[r] = "done"
    /\ passes < MaxPasses
    /\ pc' = [pc EXCEPT ![r] = "idle"]
    /\ page' = [page EXCEPT ![r] = <<>>]
    /\ source' = [source EXCEPT ![r] = <<>>]
    /\ idx' = [idx EXCEPT ![r] = 1]
    /\ missingMessages' = [missingMessages EXCEPT ![r] = <<>>]
    /\ response' = [response EXCEPT ![r] = noResponse]
    /\ uselessRemoved' = [uselessRemoved EXCEPT ![r] = <<>>]
    /\ dedupedMessages' = [dedupedMessages EXCEPT ![r] = <<>>]
    /\ preSave' = [preSave EXCEPT ![r] = <<>>]
    /\ looked' = [looked EXCEPT ![r] = {}]
    /\ UNCHANGED <<shared, config, everLooked, passes, report>>

\* ------------------------------------------------------------ specifications
\* Requests served one after the other on one catalog.
Init == InitWith(Catalogs, {<<"f", "r">>}, BOOLEAN)

Next ==
    \E r \in {1} :
        \/ Start(r, SimplePages, MaxPasses)
        \/ Primary(r)
        \/ KeepOn(r)
        \/ Attrs(r)
        \/ Respond(r)
        \/ SaveScan(r)
        \/ SaveAssign(r)
        \/ SaveAppend(r)
        \/ SaveDedupe(r)
        \/ SaveDeduped(r)
        \/ SaveFile(r)
        \/ WriteUnused(r)
        \/ Return(r)

Spec == Init /\ [][Next]_vars

\* One request on a page of one element with any attributes, of an element
\* nested in another or of an element with a comma list, to the source
\* language or to another one,
\* update_translations off.
InitTranslate == InitWith(SmallCatalogs, Languages, {FALSE})

NextTranslate ==
    \E r \in {1} :
        \/ Start(r, TranslatePages, 1)
        \/ Primary(r)
        \/ KeepOn(r)
        \/ Attrs(r)
        \/ Respond(r)
        \/ WriteUnused(r)

SpecTranslate == InitTranslate /\ [][NextTranslate]_vars

\* Two requests for the same language served at the same time,
\* update_translations on.
InitConcurrent == InitWith(SmallCatalogs, {<<"f", "r">>}, {TRUE})

OnePages == {pg \in SimplePages : Len(pg) = 1}

NextConcurrent ==
    \E r \in Requests :
        \/ Start(r, OnePages, 2)
        \/ Primary(r)
        \/ KeepOn(r)
        \/ Attrs(r)
        \/ Respond(r)
        \/ SaveScan(r)
        \/ SaveAssign(r)
        \/ SaveAppend(r)
        \/ SaveDedupe(r)
        \/ SaveDeduped(r)
        \/ SaveFile(r)
        \/ WriteUnused(r)

SpecConcurrent == InitConcurrent /\ [][NextConcurrent]_vars

\* Two requests for the same language served at the same time,
\* update_translations off, writeUnusedMessages taken one file operation at
\* a time.
InitReport == InitWith(Catalogs, {<<"f", "r">>}, {FALSE})

NextReport ==
    \E r \in Requests :
        \/ Start(r, OnePages, 2)
        \/ Primary(r)
        \/ KeepOn(r)
        \/ Attrs(r)
        \/ Respond(r)
        \/ UnusedScan(r)
        \/ UnusedRemove(r)
        \/ UnusedOpen(r)
        \/ UnusedWriteFile(r)
        \/ UnusedAppend(r)

SpecReport == InitReport /\ [][NextReport]_vars

\* One request in which the parse, the write of the response, the save of the
\* .po file or the open of the report file can fail.
InitFailure == InitWith(Catalogs, {<<"f", "r">>}, BOOLEAN)

NextFailure ==
    \E r \in {1} :
        \/ Start(r, SimplePages, 1)
        \/ ParseFails(r)
        \/ Primary(r)
        \/ KeepOn(r)
        \/ Attrs(r)
        \/ Respond(r)
        \/ RespondFails(r)
        \/ SaveScan(r)
        \/ SaveAssign(r)
        \/ SaveAppend(r)
        \/ SaveDedupe(r)
        \/ SaveDeduped(r)
        \/ SaveFile(r)
        \/ SaveFileFails(r)
        \/ WriteUnused(r)
        \/ WriteUnusedFails(r)

SpecFailure == InitFailure /\ [][NextFailure]_vars

\* ------------------------------------------------------------------ claims
\* the unit of a marked element: its trimmed content and its context
Inner(el) == TrimSpace(UnescapeString(el.content))
Ctx(el) == AttrOr(el.attrs, contextKey, <<>>)

placeholder(msgid, msgctxt) == Message(msgid, msgctxt, <<>>)

\* the catalog holds a translation of (msgid, msgctxt)
HasHit(msgs, msgid, msgctxt) ==
    \E j \in DOMAIN msgs :
        msgs[j].MsgId = msgid /\ msgs[j].MsgContext = msgctxt /\ msgs[j].MsgStr # <<>>

InSeq(x, sq) == \E k \in DOMAIN sq : sq[k] = x

\* the elements the first pass of a request has gone through, while the
\* catalog is still the one the pass reads
Processed(r) ==
    IF pc[r] = "primary" THEN 1..(idx[r] - 1)
    ELSE IF pc[r] \in {"keepon", "attrs", "respond"} THEN DOMAIN source[r]
    ELSE {}

IsUnit(el) == IsMarked(el) /\ language # sourceLanguage /\ Inner(el) # <<>>

Misses(r) ==
    {i \in Processed(r) :
        IsUnit(source[r][i]) /\ ~HasHit(poMessages, Inner(source[r][i]), Ctx(source[r][i]))}

\* C1: when the target language is not the source language, a marked
\* element with a non-empty trimmed content for which the catalog has no
\* message with that msgid, that msgctxt and a non-empty msgstr keeps its
\* content and its unit is in missingMessages, once for every such
\* element the pass went through (the pass goes on after a miss); the unit
\* of an element whose lookup succeeds is not in missingMessages.
C1_MissDegradesAndIsRecorded ==
    \A r \in Requests :
        /\ \A i \in Processed(r) :
              LET el == source[r][i] IN
              IsUnit(el) =>
                  IF i \in Misses(r)
                  THEN /\ page[r][i].content = el.content
                       /\ InSeq(placeholder(Inner(el), Ctx(el)), missingMessages[r])
                  ELSE ~InSeq(placeholder(Inner(el), Ctx(el)), missingMessages[r])
        /\ pc[r] \in {"primary", "keepon", "attrs", "respond"} =>
              Len(missingMessages[r]) = Cardinality(Misses(r))

\* C1 witness: a pass went through a first element that missed although the
\* catalog holds an empty-msgstr entry for it, then through a second one
\* that was translated.
C1_Witness ==
    \E r \in Requests :
        /\ pc[r] = "respond"
        /\ Len(source[r]) = 2
        /\ 1 \in Misses(r)
        /\ InSeq(placeholder(Inner(source[r][1]), Ctx(source[r][1])), poMessages)
        /\ IsUnit(source[r][2]) /\ 2 \notin Misses(r)
        /\ page[r][2].content # source[r][2].content

\* the msgstr of the first message of msgs with this pair and a non-empty msgstr
FirstTranslation(msgs, msgid, msgctxt) ==
    LET hits == {j \in DOMAIN msgs :
                    msgs[j].MsgId = msgid /\ msgs[j].MsgContext = msgctxt /\ msgs[j].MsgStr # <<>>}
        first == CHOOSE j \in hits : \A k \in hits : j <= k
    IN msgs[first].MsgStr

\* C2 as stated: for every message m of the catalog with a non-empty
\* msgstr, getTranslation(m.msgid, m.msgctxt) returns m.msgstr without error,
\* also in a loaded catalog that holds several messages with the same pair:
\* an element whose unit is m's pair is translated to m.msgstr.
C2_Original ==
    \A r \in Requests : \A i \in Processed(r) : \A j \in DOMAIN poMessages :
        ( /\ IsUnit(source[r][i])
          /\ poMessages[j].MsgId = Inner(source[r][i])
          /\ poMessages[j].MsgContext = Ctx(source[r][i])
          /\ poMessages[j].MsgStr # <<>> )
        => /\ page[r][i].content = poMessages[j].MsgStr
           /\ ~InSeq(placeholder(Inner(source[r][i]), Ctx(source[r][i])), missingMessages[r])

\* C2 amended: for every message m of the catalog with a non-empty msgstr,
\* getTranslation(m.msgid, m.msgctxt) returns without error the msgstr of the
\* first message of the sequence that has m's msgid and msgctxt and a
\* non-empty msgstr (m.msgstr itself when no earlier message shares the pair
\* with a non-empty msgstr); and a translated element holds that msgstr.
C2_FirstTranslationReturned ==
    /\ \A j \in DOMAIN poMessages :
          poMessages[j].MsgStr # <<>> =>
              LET m == poMessages[j]
                  got == getTranslation(poMessages, seenMessages, m.MsgId, m.MsgContext)
              IN /\ ~got.err
                 /\ got.str = FirstTranslation(poMessages, m.MsgId, m.MsgContext)
                 /\ (\A k \in 1..(j - 1) :
                        ~(poMessages[k].MsgId = m.MsgId /\ poMessages[k].MsgContext = m.MsgContext
                          /\ poMessages[k].MsgStr # <<>>)) => got.str = m.MsgStr
    /\ \A r \in Requests : \A i \in Processed(r) \ Misses(r) :
          IsUnit(source[r][i]) =>
              page[r][i].content =
                  FirstTranslation(poMessages, Inner(source[r][i]), Ctx(source[r][i]))

\* C2 witness: an element was translated from a catalog that holds two
\* messages with its pair and two different non-empty msgstr.
C2_Witness ==
    \E r \in Requests :
        /\ pc[r] = "respond"
        /\ Len(poMessages) = 2
        /\ poMessages[1].MsgId = poMessages[2].MsgId
        /\ poMessages[1].MsgContext = poMessages[2].MsgContext
        /\ poMessages[1].MsgStr # <<>> /\ poMessages[2].MsgStr # <<>>
        /\ poMessages[1].MsgStr # poMessages[2].MsgStr
        /\ \E i \in Processed(r) :
              /\ Inner(source[r][i]) = poMessages[1].MsgId
              /\ Ctx(source[r][i]) = poMessages[1].MsgContext
              /\ page[r][i].content = poMessages[1].MsgStr

\* the elements the first pass of a request has gone through
Passed(r) ==
    IF pc[r] = "idle" THEN {}
    ELSE IF pc[r] = "primary" THEN 1..(idx[r] - 1)
    ELSE DOMAIN source[r]

\* C3: when the target language is the source language, no lookup is made:
\* seenMessages and missingMessages stay as they were before the pass
\* (empty, no pass of such a catalog ever adding to them), every marked
\* element keeps its content, and the marker attribute and its -context
\* attribute are gone from every marked element.
C3_SourceLanguageOnlyStrips ==
    language = sourceLanguage =>
        /\ seenMessages = {}
        /\ everLooked = {}
        /\ \A r \in Requests :
              /\ missingMessages[r] = <<>>
              /\ looked[r] = {}
              /\ \A i \in Passed(r) :
                    IsMarked(source[r][i]) =>
                        /\ page[r][i].content = source[r][i].content
                        /\ ~HasAttr(page[r][i].attrs, markerAttribute)
                        /\ ~HasAttr(page[r][i].attrs, contextKey)

\* C3 witness: a request to the source language is over, on an element
\* that carried the marker attribute, a context and a non-blank content.
C3_Witness ==
    \E r \in Requests :
        /\ language = sourceLanguage
        /\ pc[r] = "done"
        /\ HasAttr(source[r][1].attrs, markerAttribute)
        /\ HasAttr(source[r][1].attrs, contextKey)
        /\ Inner(source[r][1]) # <<>>
        /\ response[r].written

\* strings.Join(items, ",")
RECURSIVE Join(_)
Join(items) ==
    IF items = <<>> THEN <<>>
    ELSE IF Len(items) = 1 THEN items[1]
    ELSE items[1] \o <<",">> \o Join(Tail(items))

\* the translation of a value with an empty context, the value itself on a
\* miss or when the target is the source language
TranslatedOr(msgs, val) ==
    IF language # sourceLanguage /\ HasHit(msgs, val, <<>>)
    THEN FirstTranslation(msgs, val, <<>>)
    ELSE val

\* the value the attribute pass is to give to a marked attribute
ExpectedAttr(msgs, attribute) ==
    IF HasPrefix(attribute.Key, commasPrefix)
    THEN Attr(TrimPrefix(attribute.Key, commasPrefix),
              LET items == Split(attribute.Val) IN
              Join([k \in DOMAIN items |-> TranslatedOr(msgs, items[k])]))
    ELSE Attr(TrimPrefix(attribute.Key, attrPrefix), TranslatedOr(msgs, attribute.Val))

\* C4 as stated: after the attribute pass, on every element that carried
\* the -attrs attribute, whatever the number and order of its attributes,
\* every attribute whose name began with "i18n:" or "i18n:commas:" is
\* replaced by one named without the prefix that holds the translated
\* value, and neither a prefixed attribute nor -attrs is left.
C4_EveryMarkedAttributeRenamed ==
    \A r \in Requests :
        pc[r] \in {"respond", "unused", "done"} =>
            \A i \in DOMAIN source[r] :
                (HasAttr(source[r][i].attrs, attrsKey) /\ ~page[r][i].removed) =>
                    /\ ~HasAttr(page[r][i].attrs, attrsKey)
                    /\ \A k \in DOMAIN page[r][i].attrs :
                          ~HasPrefix(page[r][i].attrs[k].Key, attrPrefix)
                    /\ \A k \in DOMAIN source[r][i].attrs :
                          HasPrefix(source[r][i].attrs[k].Key, attrPrefix) =>
                              InSeq(ExpectedAttr(poMessages, source[r][i].attrs[k]),
                                    page[r][i].attrs)

SamePair(m1, m2) == m1.MsgId = m2.MsgId /\ m1.MsgContext = m2.MsgContext

HasPair(msgs, m) == \E j \in DOMAIN msgs : SamePair(msgs[j], m)

NoDuplicatePair(msgs) == \A i, j \in DOMAIN msgs : SamePair(msgs[i], msgs[j]) => i = j

\* savePO has returned in the request
Saved(r) == update /\ pc[r] \in {"unused", "done"}

\* C5: once savePO has returned, the catalog holds a message with the
\* msgid and msgctxt of every message of the pass's missingMessages, and a
\* pair that no message had before the save has an empty msgstr.
C5_MissingMessagesSaved ==
    \A r \in Requests :
        Saved(r) =>
            \A k \in DOMAIN missingMessages[r] :
                LET m == missingMessages[r][k] IN
                /\ HasPair(poMessages, m)
                /\ HasPair(poDisk, m)
                /\ ~HasPair(preSave[r], m) =>
                      \A j \in DOMAIN poMessages :
                          SamePair(poMessages[j], m) => poMessages[j].MsgStr = <<>>

\* C5 witness: a save has returned after a pass with two misses, one of a
\* pair the catalog did not hold and one of a pair it held untranslated.
C5_Witness ==
    \E r \in Requests :
        /\ Saved(r) /\ pc[r] = "done"
        /\ \E k \in DOMAIN missingMessages[r] : ~HasPair(preSave[r], missingMessages[r][k])
        /\ \E k \in DOMAIN missingMessages[r] : HasPair(preSave[r], missingMessages[r][k])

\* C6 as stated: after any savePO no two messages of the catalog have the
\* same (msgid, msgctxt), and of several messages with an equal pair the
\* one that came first in the catalog's sequence is the one kept.
C6_Original ==
    \A r \in Requests :
        Saved(r) =>
            /\ NoDuplicatePair(poMessages)
            /\ \A j \in DOMAIN poMessages :
                  HasPair(preSave[r], poMessages[j]) =>
                      \E i \in DOMAIN preSave[r] :
                          /\ SamePair(preSave[r][i], poMessages[j])
                          /\ \A k \in 1..(i - 1) : ~SamePair(preSave[r][k], poMessages[j])
                          /\ poMessages[j] = preSave[r][i]

\* C6 amended: after any savePO no two messages of the catalog have the same
\* (msgid, msgctxt), in memory and in the file, whatever was loaded and
\* whatever passes came before; and of several messages with an equal pair
\* in the sequence savePO deduplicates (the catalog without its unseen
\* empty-msgstr messages, then missingMessages) the first one is the one
\* kept, in the order of that sequence.
C6_SaveDeduplicatesKeepingFirst ==
    /\ (update /\ passes >= 1 /\ \A r \in Requests : pc[r] = "idle") =>
          NoDuplicatePair(poMessages)
    /\ \A r \in Requests :
        /\ (update /\ pc[r] \in {"saveFile", "unused", "done"}) => NoDuplicatePair(poMessages)
        /\ Saved(r) => NoDuplicatePair(poDisk)
        /\ pc[r] = "saveDeduped" =>
              LET firsts == {i \in DOMAIN poMessages :
                                \A j \in 1..(i - 1) : ~SamePair(poMessages[j], poMessages[i])}
              IN /\ Len(dedupedMessages[r]) = Cardinality(firsts)
                 /\ \A k \in DOMAIN dedupedMessages[r] :
                       \E i \in firsts :
                           /\ dedupedMessages[r][k] = poMessages[i]
                           /\ Cardinality({j \in firsts : j < i}) = k - 1
        /\ pc[r] = "saveFile" => poMessages = dedupedMessages[r]

\* C6 witness: savePO has deduplicated a sequence that held the same pair
\* twice with two different msgstr.
C6_Witness ==
    \E r \in Requests :
        /\ pc[r] = "saveDeduped"
        /\ \E i, j \in DOMAIN poMessages :
              /\ i < j
              /\ SamePair(poMessages[i], poMessages[j])
              /\ poMessages[i].MsgStr # poMessages[j].MsgStr
        /\ Len(dedupedMessages[r]) < Len(poMessages)

PairOf(m) == <<m.MsgId, m.MsgContext>>

\* C7 as stated, in the case it names: savePO called after a pass removes
\* every message with an empty msgstr that was not looked up during that
\* pass, also when it was looked up in an earlier pass.
C7_StalePlaceholdersDropped ==
    \A r \in Requests :
        Saved(r) =>
            \A j \in DOMAIN poMessages :
                ~( /\ poMessages[j].MsgStr = <<>>
                   /\ PairOf(poMessages[j]) \notin looked[r]
                   /\ PairOf(poMessages[j]) \in everLooked )

\* C8 as stated, in the case it names: over a sequence of passes, a catalog
\* message for which no lookup was attempted during the pass is in the
\* unused-message list written at the end of that pass, also when a lookup
\* was attempted in an earlier pass.
C8_UnusedIffNotLookedUpInPass ==
    \A r \in Requests :
        pc[r] = "done" =>
            \A j \in DOMAIN poMessages :
                ( /\ PairOf(poMessages[j]) \notin looked[r]
                  /\ PairOf(poMessages[j]) \in everLooked )
                => InSeq(unusedLine(poMessages[j]), unusedFile)

\* C9 as stated: a catalog message is treated as seen (left out of
\* unusedMessages, kept by savePO) only if some lookup was made with its
\* msgid and its msgctxt.
C9_SeenIsPerPair ==
    \A j \in DOMAIN poMessages :
        ~InSeq(poMessages[j], unusedMessages(poMessages, seenMessages))
        => PairOf(poMessages[j]) \in everLooked

\* C10 as stated: once two concurrent requests for the same language have
\* both finished, the catalog holds a message for every miss either of them
\* recorded and no (msgid, msgctxt) twice.
C10_ConcurrentSavesKeepEveryMiss ==
    (\A r \in Requests : pc[r] = "done") =>
        /\ NoDuplicatePair(poMessages)
        /\ \A r \in Requests : \A k \in DOMAIN missingMessages[r] :
              HasPair(poMessages, missingMessages[r][k])

\* the unit of some element of the page the request was given
UnitOfSource(r, m) ==
    \E i \in DOMAIN source[r] :
        IsUnit(source[r][i]) /\ m = placeholder(Inner(source[r][i]), Ctx(source[r][i]))

\* C11: whatever the interleaving of the requests on one language, the
\* missingMessages a request carries into its savePO holds only units of the
\* request's own page that its own pass looked up, and as many of them as
\* its own pass appended: no miss recorded by another request is in it.
C11_MissingIsPerRequest ==
    \A r \in Requests :
        /\ \A k \in DOMAIN missingMessages[r] :
              /\ UnitOfSource(r, missingMessages[r][k])
              /\ PairOf(missingMessages[r][k]) \in looked[r]
        /\ Len(missingMessages[r]) <= Len(source[r])

\* C11 witness: a request is in its savePO, past the append, with a miss of
\* its own while the other request has recorded a miss of another unit.
C11_Witness ==
    \E r, q \in Requests :
        /\ r # q
        /\ pc[r] = "saveDedupe"
        /\ missingMessages[r] # <<>> /\ missingMessages[q] # <<>>
        /\ ~InSeq(missingMessages[q][1], missingMessages[r])

\* the report writeUnusedMessages is to leave for a list of unused messages
ReportOf(list) ==
    IF list = <<>> THEN <<>>
    ELSE <<unusedHeader>> \o [i \in 1..Len(list) |-> unusedLine(list[i])]

\* C12 as stated: once two overlapping writeUnusedMessages have both
\* finished, the report file is absent or is one header line followed by the
\* complete list of unused messages of one of the writers, no entry twice.
C12_OverlappingReportsLeaveOneList ==
    (\A r \in Requests : pc[r] = "done") =>
        \/ unusedFile = <<>>
        \/ \E r \in Requests : unused[r] # <<>> /\ unusedFile = ReportOf(unused[r])


\* C13: savePO is idempotent. Once savePO has returned, the message sequence
\* (in memory and in the file) is the one savePO computes from the sequence
\* it started with, and a second call with the same seenMessages and the
\* same missingMessages would leave that sequence as it is (every message of
\* missingMessages was looked up, so its key is in seenMessages).
C13_SaveIsIdempotent ==
    \A r \in Requests :
        Saved(r) =>
            /\ poMessages = savePO(preSave[r], seenMessages, missingMessages[r])
            /\ poDisk = poMessages
            /\ savePO(poMessages, seenMessages, missingMessages[r]) = poMessages
            /\ \A k \in DOMAIN missingMessages[r] :
                  seenKey(missingMessages[r][k].MsgId, missingMessages[r][k].MsgContext)
                      \in seenMessages
\* C13 witness: a savePO has returned that dropped an unseen placeholder,
\* added a missing message and removed a duplicate.
C13_Witness ==
    \E r \in Requests :
        /\ Saved(r)
        /\ missingMessages[r] # <<>>
        /\ uselessRemovedOf(preSave[r], seenMessages) # preSave[r]
        /\ ~NoDuplicatePair(uselessRemovedOf(preSave[r], seenMessages) \o missingMessages[r])


\* the same messages discovered in the opposite order
Reverse(sq) == [i \in 1..Len(sq) |-> sq[Len(sq) + 1 - i]]

\* C14 as stated: the sequence savePO saves depends on the set of messages
\* only; from the same catalog, the pass that discovers the same missing
\* messages in the opposite order saves the same sequence.
C14_SavedOrderIsCanonical ==
    \A r \in Requests :
        Saved(r) =>
            /\ poMessages = savePO(preSave[r], seenMessages, Reverse(missingMessages[r]))
            /\ poDisk = poMessages


\* C15 as stated: with update_translations off, serving requests leaves the
\* files as loadTranslations found them: the .po file holds the loaded
\* catalog (which no request changes in memory either) and the report file,
\* absent at the start, is not created.
C15_NoFilesWithoutUpdate ==
    ~update =>
        /\ poDisk = poMessages
        /\ unusedFile = <<>>


\* savePO or writeUnusedMessages is running in the request, or both are over
Persisting(r) ==
    pc[r] \in {"save", "saveAssign", "saveAppend", "saveDedupe", "saveDeduped", "saveFile",
               "unused", "done"}

\* C16: whenever savePO or writeUnusedMessages runs or has run, the status
\* and the translated body are already written; a persistence step, failed
\* or not, leaves the response as it is and leads on to the handler's
\* successful return only; and when the page failed to translate, nothing
\* is written and the handler takes no further step, so no persistence runs.
C16_ResponseBeforePersistence ==
    /\ [](\A r \in Requests :
            /\ Persisting(r) => response[r] = [written |-> TRUE, body |-> htmlString(page[r])]
            /\ pc[r] = "parseFailed" =>
                  /\ response[r] = noResponse
                  /\ poDisk = poMessages /\ unusedFile = <<>> /\ seenMessages = {})
    /\ [][\A r \in Requests :
            /\ Persisting(r) => (Persisting(r)' /\ response'[r] = response[r])
            /\ pc[r] = "parseFailed" => UNCHANGED vars]_vars

\* C16 witness: the handler has returned success with the translated body
\* written although the save of the .po file failed and the report file
\* could not be opened.
C16_Witness ==
    \E r \in Requests :
        /\ pc[r] = "done" /\ update
        /\ response[r].written /\ response[r].body # <<>>
        /\ poDisk # poMessages
        /\ unusedMessages(poMessages, seenMessages) # <<>> /\ unusedFile = <<>>


\* the conditional content pass of the request is over
KeepOnDone(r) == pc[r] \in {"attrs", "respond", "unused", "done"}

\* C17 as stated: after the conditional content pass an element that carried
\* the -keep-on attribute is in the output if and only if the value of the
\* attribute is the target language, and a kept element has lost the
\* attribute.
C17_Original ==
    \A r \in Requests :
        KeepOnDone(r) =>
            \A i \in DOMAIN source[r] :
                HasAttr(source[r][i].attrs, keepOnKey) =>
                    /\ InTree(page[r], i) <=> AttrOr(source[r][i].attrs, keepOnKey, <<>>) = language
                    /\ InTree(page[r], i) => ~HasAttr(page[r][i].attrs, keepOnKey)

\* C17 amended: after the conditional content pass an element that carried
\* the -keep-on attribute is in the output if and only if the value of the
\* attribute is the target language and the element is not nested in an
\* element the pass removed; a kept element has lost the attribute; whether
\* the target language is the source language or not.
C17_KeptIffLanguageAndParentKept ==
    \A r \in Requests :
        KeepOnDone(r) =>
            \A i \in DOMAIN source[r] :
                HasAttr(source[r][i].attrs, keepOnKey) =>
                    /\ InTree(page[r], i) <=>
                          /\ AttrOr(source[r][i].attrs, keepOnKey, <<>>) = language
                          /\ source[r][i].parent # 0 => InTree(page[r], source[r][i].parent)
                    /\ ~HasAttr(page[r][i].attrs, keepOnKey)

\* C17 witness: the response is written for a page on which an element whose
\* -keep-on value is the target language was nested in an element removed
\* by the pass.
C17_Witness ==
    \E r \in Requests : \E i \in DOMAIN source[r] :
        /\ pc[r] = "done" /\ response[r].written
        /\ HasAttr(source[r][i].attrs, keepOnKey)
        /\ AttrOr(source[r][i].attrs, keepOnKey, <<>>) = language
        /\ source[r][i].parent # 0
        /\ ~InTree(page[r], i)


\* how many times x is in sq
Occurrences(x, sq) == Cardinality({k \in DOMAIN sq : sq[k] = x})

\* the element carries -attrs and, as its only attribute with the marker
\* prefix, a commas: attribute
OnlyCommas(el) ==
    /\ ~IsMarked(el)
    /\ HasAttr(el.attrs, attrsKey)
    /\ Cardinality({k \in DOMAIN el.attrs : HasPrefix(el.attrs[k].Key, attrPrefix)}) = 1
    /\ \E k \in DOMAIN el.attrs : HasPrefix(el.attrs[k].Key, commasPrefix)

\* C18 as stated: for a commas: attribute and a target language that is not
\* the source language, the attribute named without the prefix holds the
\* items of the input value, in their order and joined by commas, each one
\* replaced by its msgstr on a hit and kept on a miss; and every item that
\* misses is in missingMessages once for each of its occurrences.
C18_CommaItemsTranslatedAndRejoined ==
    \A r \in Requests :
        (pc[r] \in {"respond", "unused", "done"} /\ language # sourceLanguage) =>
            \A i \in DOMAIN source[r] :
                OnlyCommas(source[r][i]) =>
                    LET attribute == CHOOSE a \in {source[r][i].attrs[k] : k \in DOMAIN source[r][i].attrs} :
                                         HasPrefix(a.Key, commasPrefix)
                        items == Split(attribute.Val)
                    IN /\ InSeq(ExpectedAttr(poMessages, attribute), page[r][i].attrs)
                       /\ \A k \in DOMAIN items :
                             (items[k] # <<>> /\ ~HasHit(poMessages, items[k], <<>>)) =>
                                 Occurrences(placeholder(items[k], <<>>), missingMessages[r])
                                     = Occurrences(items[k], items)


\* the (msgid, msgctxt) pairs with a non-empty msgid an element asks for:
\* its trimmed content with its context, the values of its attributes with
\* the marker prefix and the items of its comma lists
NonEmptyUnits(el) ==
    (IF IsMarked(el) /\ Inner(el) # <<>> THEN {<<Inner(el), Ctx(el)>>} ELSE {})
    \cup UNION { IF ~HasPrefix(el.attrs[k].Key, attrPrefix) THEN {}
                 ELSE IF HasPrefix(el.attrs[k].Key, commasPrefix)
                 THEN LET items == Split(el.attrs[k].Val) IN
                      {<<items[j], <<>>>> : j \in {j \in DOMAIN items : items[j] # <<>>}}
                 ELSE IF el.attrs[k].Val # <<>> THEN {<<el.attrs[k].Val, <<>>>>} ELSE {}
               : k \in DOMAIN el.attrs }

\* C19: getTranslation of an empty msgid, in any context, returns the empty
\* string without error and leaves seenMessages as it is; no message of
\* missingMessages has an empty msgid, and every key of seenMessages is the
\* key of a unit with a non-empty msgid of the page: a marked element with a
\* blank content and an empty item of a comma list add nothing.
C19_EmptyMsgidTouchesNothing ==
    /\ \A msgctxt \in {<<>>, <<"b">>} :
          /\ getTranslation(poMessages, seenMessages, <<>>, msgctxt)
                = [str |-> <<>>, err |-> FALSE, seen |-> seenMessages]
          /\ \A r \in Requests : lookup(poMessages, accOf(r), <<>>, msgctxt).acc = accOf(r)
    /\ \A r \in Requests : \A k \in DOMAIN missingMessages[r] :
          missingMessages[r][k].MsgId # <<>>
    /\ \A key \in seenMessages :
          \E r \in Requests : \E i \in DOMAIN source[r] : \E u \in NonEmptyUnits(source[r][i]) :
              key = seenKey(u[1], u[2])

\* C19 witness: a request to another language than the source is over on a
\* comma list with an empty item, for which getTranslation was called, and
\* the other item of the list is the only entry of missingMessages.
C19_Witness ==
    \E r \in Requests :
        /\ pc[r] = "done" /\ language # sourceLanguage
        /\ OnlyCommas(source[r][1])
        /\ \E k \in DOMAIN source[r][1].attrs :
              /\ HasPrefix(source[r][1].attrs[k].Key, commasPrefix)
              /\ \E j \in DOMAIN Split(source[r][1].attrs[k].Val) :
                    Split(source[r][1].attrs[k].Val)[j] = <<>>
        /\ Len(missingMessages[r]) = 1
        /\ Cardinality(seenMessages) = 1


\* C20 as stated: once savePO has returned, getTranslation returns for every
\* (msgid, msgctxt) pair the msgstr it returned before the save.
C20_SaveKeepsTranslations ==
    \A r \in Requests :
        Saved(r) =>
            \A j \in DOMAIN preSave[r] :
                LET m == preSave[r][j]
                    before == getTranslation(preSave[r], seenMessages, m.MsgId, m.MsgContext)
                    after == getTranslation(poMessages, seenMessages, m.MsgId, m.MsgContext)
                IN ~before.err => (~after.err /\ after.str = before.str)


\* the element is not located inside an element that the conditional content
\* pass of the request removed
NotInsideRemoved(r, i) ==
    source[r][i].parent # 0 => InTree(page[r], source[r][i].parent)

\* C21 as stated: once the conditional content pass is over, every message
\* of missingMessages and every key of seenMessages is that of a unit of an
\* element that is not located inside an element the pass removed: a marked
\* element inside a removed element has added nothing to either.
C21_RemovedContentAddsNothing ==
    \A r \in Requests :
        KeepOnDone(r) =>
            /\ \A k \in DOMAIN missingMessages[r] :
                  \E i \in DOMAIN source[r] :
                      /\ NotInsideRemoved(r, i)
                      /\ <<missingMessages[r][k].MsgId, missingMessages[r][k].MsgContext>>
                            \in NonEmptyUnits(source[r][i])
            /\ \A key \in seenMessages :
                  \E i \in DOMAIN source[r] : \E u \in NonEmptyUnits(source[r][i]) :
                      NotInsideRemoved(r, i) /\ key = seenKey(u[1], u[2])

====
